---- MODULE Spec2Model ----
(***************************************************************************)
(* Model of backend/internal/services/user.service.go: BaseUserService,    *)
(* the user-account service (login with a signed token, registration with  *)
(* bcrypt hashing, profile read/update, user tags) over a store reached    *)
(* through one shared *pgx.Conn.                                           *)
(*                                                                         *)
(* The query layer (repository.Queries), the request models and the error  *)
(* values live in packages whose files are not part of the sources at      *)
(* hand; they are modelled from the specification: one atomic statement    *)
(* per query, which either takes effect and returns no error or returns an *)
(* error and changes nothing.                                              *)
(***************************************************************************)
EXTENDS Integers, Sequences, FiniteSets, TLC

\* ------------------------------------------------------------- bounds
MaxClock == 1
NumCallers == 2

\* ---------------------------------------------------------- constants
\* 24 * time.Hour, in the seconds of Unix()
Day == 86400
\* bcrypt reads at most 72 bytes of key material
BcryptMaxLen == 72

Nil == "nil"
ErrUnauthorizedUser == "ErrUnauthorizedUser"
ErrInternalFailure == "ErrInternalFailure"
\* errors of the store
ErrNoRows == "ErrNoRows"
ErrUnique == "ErrUniqueViolation"
ErrConn == "ErrConn"
\* a statement issued on a *pgx.Conn that has another one in flight
ErrConnBusy == "conn busy"
\* errors of the libraries
ErrPasswordTooLong == "ErrPasswordTooLong"
ErrSign == "ErrSign"

\* var key []byte = []byte(os.Getenv("APP_JWT_KEY"))
key == "APP_JWT_KEY"

Usernames == {"alice", "bob"}
TagOrder == <<"gluten", "vegan">>
TagNames == {TagOrder[i] : i \in 1..Len(TagOrder)}
TagTypes == {"allergy", "diet"}

Rep(b, n) == [i \in 1..n |-> b]
PwShort == <<97>>
PwCycle == <<97, 0, 97>>
PwLong == Rep(97, BcryptMaxLen)
PwTooLong == Rep(97, BcryptMaxLen + 1)
Passwords == {PwShort, PwCycle, PwLong, PwTooLong}
NoPassword == <<>>

\* the salt bcrypt draws for a new hash
Salts == {1}

\* outcome of a store call made under a failing connection or context
Faults == {"none", ErrConn}

\* ------------------------------------------------------------ bcrypt
\* The key bcrypt expands: the password followed by a NUL byte, repeated
\* cyclically, of which the first 72 bytes are read.
BcryptKey(pw) ==
  LET ck == pw \o <<0>>
  IN [i \in 1..BcryptMaxLen |-> ck[((i - 1) % Len(ck)) + 1]]

\* bcrypt.GenerateFromPassword(password, bcrypt.DefaultCost) with the salt
\* it drew: "$" salt hash(key).
GenerateFromPassword(pw, salt) ==
  IF Len(pw) > BcryptMaxLen
  THEN [err |-> ErrPasswordTooLong, hash |-> <<>>]
  ELSE [err |-> Nil, hash |-> <<36, salt>> \o BcryptKey(pw)]

\* bcrypt.CompareHashAndPassword(hash, password) = nil
CompareHashAndPassword(hash, pw) ==
  /\ Len(hash) = BcryptMaxLen + 2
  /\ hash = <<36, hash[2]>> \o BcryptKey(pw)

\* --------------------------------------------------------- the store
NoRow ==
  [username |-> "", passwdhash |-> <<>>, email |-> "", name |-> "",
   surname |-> "", phone_number |-> "", age |-> 0, sex |-> "",
   weight |-> 0, height |-> 0, bmi |-> 0]

NoToken == [sub |-> "", exp |-> 0, iat |-> 0, sig |-> ""]

\* models.CreateUserRequest for (username, password)
CreateUserRequest(u, p) ==
  [Username |-> u, Passwdhash |-> p, Email |-> "reg@mail", PhoneNumber |-> "111",
   Age |-> 30, Sex |-> "f"]

\* models.UpdateUserSettingsRequest
UpdateUserSettingsRequest ==
  [Email |-> "new@mail", Name |-> "bob", Surname |-> "Lee", PhoneNumber |-> "222",
   Age |-> 31, Sex |-> "m", Weight |-> 70, Height |-> 180, Bmi |-> 21]

\* s.Repo.LoginUserWithUsername(ctx, login)
RepoLoginUserWithUsername(U, login, fault) ==
  IF fault # "none" THEN [err |-> fault, row |-> NoRow]
  ELSE IF login \notin DOMAIN U THEN [err |-> ErrNoRows, row |-> NoRow]
  ELSE [err |-> Nil, row |-> U[login]]

\* s.Repo.GetUserData(ctx, username)
RepoGetUserData(U, username, fault) ==
  IF fault # "none" THEN [err |-> fault, row |-> NoRow]
  ELSE IF username \notin DOMAIN U THEN [err |-> ErrNoRows, row |-> NoRow]
  ELSE [err |-> Nil, row |-> U[username]]

\* s.Repo.CreateUser(ctx, params): username is unique
RepoCreateUser(U, p, fault) ==
  IF fault # "none" THEN [err |-> fault, users |-> U]
  ELSE IF p.Username \in DOMAIN U THEN [err |-> ErrUnique, users |-> U]
  ELSE [err |-> Nil,
        users |-> U @@ (p.Username :>
          [NoRow EXCEPT !.username = p.Username, !.passwdhash = p.Passwdhash,
                        !.email = p.Email, !.phone_number = p.PhoneNumber,
                        !.age = p.Age, !.sex = p.Sex])]

\* s.Repo.UpdateUserSettings(ctx, params): the row of params.Username
RepoUpdateUserSettings(U, p, fault) ==
  IF fault # "none" THEN [err |-> fault, users |-> U]
  ELSE IF p.Username \notin DOMAIN U THEN [err |-> Nil, users |-> U]
  ELSE [err |-> Nil,
        users |-> [U EXCEPT ![p.Username] =
          [@ EXCEPT !.email = p.Email, !.name = p.Name, !.surname = p.Surname,
                    !.phone_number = p.PhoneNumber, !.age = p.Age, !.sex = p.Sex,
                    !.weight = p.Weight, !.height = p.Height, !.bmi = p.Bmi]]]

\* s.Repo.InsertUserTag(ctx, params): (username, tag name) is unique
RepoInsertUserTag(T, p, fault) ==
  IF fault # "none" THEN [err |-> fault, tags |-> T]
  ELSE IF \E t \in T : t.username = p.Username /\ t.tag_name = p.TagName
       THEN [err |-> ErrUnique, tags |-> T]
  ELSE [err |-> Nil,
        tags |-> T \cup {[username |-> p.Username, tag_name |-> p.TagName,
                          tag_type |-> p.TagTypeName]}]

\* s.Repo.DeleteUserTag(ctx, params): by (username, tag name)
RepoDeleteUserTag(T, p, fault) ==
  IF fault # "none" THEN [err |-> fault, tags |-> T]
  ELSE [err |-> Nil,
        tags |-> {t \in T : ~(t.username = p.Username /\ t.tag_name = p.TagName)}]

\* the rows of one user as the list the query returns, in tag-name order
TagRows(T, username) ==
  LET F[i \in 0..Len(TagOrder)] ==
        IF i = 0 THEN <<>>
        ELSE LET rows == {t \in T : t.username = username /\ t.tag_name = TagOrder[i]}
             IN IF rows = {} THEN F[i - 1]
                ELSE LET r == CHOOSE x \in rows : TRUE
                     IN Append(F[i - 1], [tag_name |-> r.tag_name, tag_type |-> r.tag_type])
  IN F[Len(TagOrder)]

\* s.Repo.DisplayUserTag(ctx, username)
RepoDisplayUserTag(T, username, fault) ==
  IF fault # "none" THEN [err |-> fault, rows |-> <<>>]
  ELSE [err |-> Nil, rows |-> TagRows(T, username)]

\* ------------------------------------------------------- the service
VARIABLES
  users,       \* the store's user rows, by username
  tags,        \* the store's tag rows
  clock,       \* the wall clock time.Now() reads, in seconds
  registered,  \* history: the (username, password) pairs CreateUser accepted
  last,        \* the last call of the sequential callers: inputs and outcome
  conn,        \* the shared *pgx.Conn: "idle" or "busy"
  calls        \* the concurrent callers' calls in flight

vars == <<users, tags, clock, registered, last, conn, calls>>

NoTag == [Name |-> "", TagType |-> ""]

\* what one invocation returned and did
Outcome(err, token, row, rows, storeCalls, storeErr, libErr, U, T) ==
  [err |-> err, token |-> token, row |-> row, rows |-> rows,
   storeCalls |-> storeCalls, storeErr |-> storeErr, libErr |-> libErr,
   users |-> U, tags |-> T]

\* generateJWT: HS256 over {sub, exp, iat}; the clock is read twice, for
\* exp (now1) and then for iat (now2)
generateJWT(username, signOk, now1, now2) ==
  IF signOk
  THEN [token |-> [sub |-> username, exp |-> now1 + Day, iat |-> now2, sig |-> key],
        err |-> Nil]
  ELSE [token |-> NoToken, err |-> ErrSign]

LoginUser(U, T, loginData, fault, signOk, now1, now2) ==
  LET q == RepoLoginUserWithUsername(U, loginData.Login, fault)
  IN IF q.err # Nil
     THEN Outcome(ErrUnauthorizedUser, NoToken, NoRow, <<>>, 1, q.err, Nil, U, T)
     ELSE IF ~CompareHashAndPassword(q.row.passwdhash, loginData.Password)
     THEN Outcome(ErrUnauthorizedUser, NoToken, NoRow, <<>>, 1, Nil, Nil, U, T)
     ELSE LET j == generateJWT(q.row.username, signOk, now1, now2)
          IN IF j.err # Nil
             THEN Outcome(ErrInternalFailure, NoToken, NoRow, <<>>, 1, Nil, j.err, U, T)
             ELSE Outcome(Nil, j.token, NoRow, <<>>, 1, Nil, Nil, U, T)

\* CreateUser persisting req.Passwdhash as it came instead of the bcrypt hash
CreateUser_StoresPlaintext(U, T, req, valid, salt, fault) ==
  IF ~valid
  THEN Outcome(ErrInternalFailure, NoToken, NoRow, <<>>, 0, Nil, "ErrValidation", U, T)
  ELSE LET h == GenerateFromPassword(req.Passwdhash, salt)
       IN IF h.err # Nil
          THEN Outcome(ErrInternalFailure, NoToken, NoRow, <<>>, 0, Nil, h.err, U, T)
          ELSE LET q == RepoCreateUser(U,
                          [Username |-> req.Username, Passwdhash |-> req.Passwdhash,
                           Email |-> req.Email, PhoneNumber |-> req.PhoneNumber,
                           Age |-> req.Age, Sex |-> req.Sex], fault)
               IN IF q.err # Nil
                  THEN Outcome(ErrInternalFailure, NoToken, NoRow, <<>>, 1, q.err, Nil, q.users, T)
                  ELSE Outcome(Nil, NoToken, NoRow, <<>>, 1, Nil, Nil, q.users, T)

\* CreateUser returning the store's error itself, as the tag operations do
CreateUser_RawStoreError(U, T, req, valid, salt, fault) ==
  IF ~valid
  THEN Outcome(ErrInternalFailure, NoToken, NoRow, <<>>, 0, Nil, "ErrValidation", U, T)
  ELSE LET h == GenerateFromPassword(req.Passwdhash, salt)
       IN IF h.err # Nil
          THEN Outcome(ErrInternalFailure, NoToken, NoRow, <<>>, 0, Nil, h.err, U, T)
          ELSE LET q == RepoCreateUser(U,
                          [Username |-> req.Username, Passwdhash |-> h.hash,
                           Email |-> req.Email, PhoneNumber |-> req.PhoneNumber,
                           Age |-> req.Age, Sex |-> req.Sex], fault)
               IN IF q.err # Nil
                  THEN Outcome(q.err, NoToken, NoRow, <<>>, 1, q.err, Nil, q.users, T)
                  ELSE Outcome(Nil, NoToken, NoRow, <<>>, 1, Nil, Nil, q.users, T)

CreateUser(U, T, req, valid, salt, fault) ==
  IF ~valid
  THEN Outcome(ErrInternalFailure, NoToken, NoRow, <<>>, 0, Nil, "ErrValidation", U, T)
  ELSE LET h == GenerateFromPassword(req.Passwdhash, salt)
       IN IF h.err # Nil
          THEN Outcome(ErrInternalFailure, NoToken, NoRow, <<>>, 0, Nil, h.err, U, T)
          ELSE LET q == RepoCreateUser(U,
                          [Username |-> req.Username, Passwdhash |-> h.hash,
                           Email |-> req.Email, PhoneNumber |-> req.PhoneNumber,
                           Age |-> req.Age, Sex |-> req.Sex], fault)
               IN IF q.err # Nil
                  THEN Outcome(ErrInternalFailure, NoToken, NoRow, <<>>, 1, q.err, Nil, q.users, T)
                  ELSE Outcome(Nil, NoToken, NoRow, <<>>, 1, Nil, Nil, q.users, T)

GetUser(U, T, username, fault) ==
  LET q == RepoGetUserData(U, username, fault)
  IN Outcome(q.err, NoToken, q.row, <<>>, 1, q.err, Nil, U, T)

\* UpdateUserSettings issuing the statement a second time when it failed
UpdateUserSettings_Retry(U, T, req, username, fault) ==
  LET p == [Username |-> username, Email |-> req.Email, Name |-> req.Name,
            Surname |-> req.Surname, PhoneNumber |-> req.PhoneNumber,
            Age |-> req.Age, Sex |-> req.Sex, Weight |-> req.Weight,
            Height |-> req.Height, Bmi |-> req.Bmi]
      q == RepoUpdateUserSettings(U, p, fault)
      q2 == RepoUpdateUserSettings(U, p, fault)
  IN IF q.err = Nil
     THEN Outcome(Nil, NoToken, NoRow, <<>>, 1, Nil, Nil, q.users, T)
     ELSE IF q2.err # Nil
     THEN Outcome(ErrInternalFailure, NoToken, NoRow, <<>>, 2, q2.err, Nil, q2.users, T)
     ELSE Outcome(Nil, NoToken, NoRow, <<>>, 2, Nil, Nil, q2.users, T)

\* UpdateUserSettings keying the statement by req.Name instead of username
UpdateUserSettings_KeyedByName(U, T, req, username, fault) ==
  LET q == RepoUpdateUserSettings(U,
             [Username |-> req.Name, Email |-> req.Email, Name |-> req.Name,
              Surname |-> req.Surname, PhoneNumber |-> req.PhoneNumber,
              Age |-> req.Age, Sex |-> req.Sex, Weight |-> req.Weight,
              Height |-> req.Height, Bmi |-> req.Bmi], fault)
  IN IF q.err # Nil
     THEN Outcome(ErrInternalFailure, NoToken, NoRow, <<>>, 1, q.err, Nil, q.users, T)
     ELSE Outcome(Nil, NoToken, NoRow, <<>>, 1, Nil, Nil, q.users, T)

UpdateUserSettings(U, T, req, username, fault) ==
  LET q == RepoUpdateUserSettings(U,
             [Username |-> username, Email |-> req.Email, Name |-> req.Name,
              Surname |-> req.Surname, PhoneNumber |-> req.PhoneNumber,
              Age |-> req.Age, Sex |-> req.Sex, Weight |-> req.Weight,
              Height |-> req.Height, Bmi |-> req.Bmi], fault)
  IN IF q.err # Nil
     THEN Outcome(ErrInternalFailure, NoToken, NoRow, <<>>, 1, q.err, Nil, q.users, T)
     ELSE Outcome(Nil, NoToken, NoRow, <<>>, 1, Nil, Nil, q.users, T)

\* AddUserTag with TagName and TagTypeName filled from the wrong fields
AddUserTag_SwappedFields(U, T, username, userTag, fault) ==
  LET q == RepoInsertUserTag(T,
             [Username |-> username, TagName |-> userTag.TagType,
              TagTypeName |-> userTag.Name], fault)
  IN IF q.err # Nil
     THEN Outcome(q.err, NoToken, NoRow, <<>>, 1, q.err, Nil, U, q.tags)
     ELSE Outcome(Nil, NoToken, NoRow, <<>>, 1, Nil, Nil, U, q.tags)

AddUserTag(U, T, username, userTag, fault) ==
  LET q == RepoInsertUserTag(T,
             [Username |-> username, TagName |-> userTag.Name,
              TagTypeName |-> userTag.TagType], fault)
  IN IF q.err # Nil
     THEN Outcome(q.err, NoToken, NoRow, <<>>, 1, q.err, Nil, U, q.tags)
     ELSE Outcome(Nil, NoToken, NoRow, <<>>, 1, Nil, Nil, U, q.tags)

\* DeleteUserTag translating the store's error as UpdateUserSettings does
DeleteUserTag_Translated(U, T, username, tagName, fault) ==
  LET q == RepoDeleteUserTag(T, [Username |-> username, TagName |-> tagName], fault)
  IN IF q.err # Nil
     THEN Outcome(ErrInternalFailure, NoToken, NoRow, <<>>, 1, q.err, Nil, U, q.tags)
     ELSE Outcome(Nil, NoToken, NoRow, <<>>, 1, Nil, Nil, U, q.tags)

DeleteUserTag(U, T, username, tagName, fault) ==
  LET q == RepoDeleteUserTag(T, [Username |-> username, TagName |-> tagName], fault)
  IN IF q.err # Nil
     THEN Outcome(q.err, NoToken, NoRow, <<>>, 1, q.err, Nil, U, q.tags)
     ELSE Outcome(Nil, NoToken, NoRow, <<>>, 1, Nil, Nil, U, q.tags)

DisplayUserTag(U, T, username, fault) ==
  LET q == RepoDisplayUserTag(T, username, fault)
  IN IF q.err # Nil
     THEN Outcome(q.err, NoToken, NoRow, <<>>, 1, q.err, Nil, U, T)
     ELSE Outcome(Nil, NoToken, NoRow, q.rows, 1, Nil, Nil, U, T)

\* ------------------------------------------- sequential callers: Spec
NoCall == [op |-> "none", username |-> "", password |-> NoPassword, tag |-> NoTag]

Call(op, username, password, tag) ==
  [op |-> op, username |-> username, password |-> password, tag |-> tag]

\* the call and, of its outcome, what the caller sees and what the
\* invocation did on the way
Record(call, o) ==
  [call |-> call, err |-> o.err, token |-> o.token, row |-> o.row, rows |-> o.rows,
   storeCalls |-> o.storeCalls, storeErr |-> o.storeErr, libErr |-> o.libErr]

Callers == 1..NumCallers

IdleCall ==
  [pc |-> "idle", req |-> CreateUserRequest("", NoPassword), valid |-> FALSE,
   salt |-> 0, err |-> Nil]

NoOutcome == Outcome(Nil, NoToken, NoRow, <<>>, 0, Nil, Nil, <<>>, {})

Init ==
  /\ users = <<>>
  /\ tags = {}
  /\ clock = 0
  /\ registered = {}
  /\ last = Record(NoCall, NoOutcome)
  /\ conn = "idle"
  /\ calls = [c \in Callers |-> IdleCall]

\* time passes between calls
Tick ==
  /\ last.call.op = "none"
  /\ clock < MaxClock
  /\ clock' = clock + 1
  /\ UNCHANGED <<users, tags, registered, last, conn, calls>>

DoLoginUser(Pws) ==
  \E login \in Usernames, password \in Pws, fault \in Faults,
     signOk \in BOOLEAN, skew \in 0..(MaxClock - clock) :
    /\ last.call.op = "none"
    /\ LET o == LoginUser(users, tags, [Login |-> login, Password |-> password],
                          fault, signOk, clock, clock + skew)
       IN /\ last' = Record(Call("LoginUser", login, password, NoTag), o)
          /\ users' = o.users
          /\ tags' = o.tags
    /\ clock' = clock + skew
    /\ UNCHANGED <<registered, conn, calls>>

DoCreateUser(Pws) ==
  \E username \in Usernames, password \in Pws, valid \in BOOLEAN,
     salt \in Salts, fault \in Faults :
    /\ last.call.op = "none"
    /\ LET o == CreateUser(users, tags, CreateUserRequest(username, password),
                           valid, salt, fault)
       IN /\ last' = Record(Call("CreateUser", username, password, NoTag), o)
          /\ users' = o.users
          /\ tags' = o.tags
          /\ registered' = IF o.err = Nil THEN registered \cup {<<username, password>>}
                           ELSE registered
    /\ UNCHANGED <<clock, conn, calls>>

DoGetUser ==
  \E username \in Usernames, fault \in Faults :
    /\ last.call.op = "none"
    /\ LET o == GetUser(users, tags, username, fault)
       IN /\ last' = Record(Call("GetUser", username, NoPassword, NoTag), o)
          /\ users' = o.users
          /\ tags' = o.tags
    /\ UNCHANGED <<clock, registered, conn, calls>>

DoUpdateUserSettings ==
  \E username \in Usernames, fault \in Faults :
    /\ last.call.op = "none"
    /\ LET o == UpdateUserSettings(users, tags, UpdateUserSettingsRequest, username, fault)
       IN /\ last' = Record(Call("UpdateUserSettings", username, NoPassword, NoTag), o)
          /\ users' = o.users
          /\ tags' = o.tags
    /\ UNCHANGED <<clock, registered, conn, calls>>

DoAddUserTag(Names, Types) ==
  \E username \in Usernames, name \in Names, type \in Types, fault \in Faults :
    /\ last.call.op = "none"
    /\ LET userTag == [Name |-> name, TagType |-> type]
           o == AddUserTag(users, tags, username, userTag, fault)
       IN /\ last' = Record(Call("AddUserTag", username, NoPassword, userTag), o)
          /\ users' = o.users
          /\ tags' = o.tags
    /\ UNCHANGED <<clock, registered, conn, calls>>

DoDeleteUserTag(Names) ==
  \E username \in Usernames, name \in Names, fault \in Faults :
    /\ last.call.op = "none"
    /\ LET o == DeleteUserTag(users, tags, username, name, fault)
       IN /\ last' = Record(Call("DeleteUserTag", username, NoPassword,
                                 [Name |-> name, TagType |-> ""]), o)
          /\ users' = o.users
          /\ tags' = o.tags
    /\ UNCHANGED <<clock, registered, conn, calls>>

DoDisplayUserTag ==
  \E username \in Usernames, fault \in Faults :
    /\ last.call.op = "none"
    /\ LET o == DisplayUserTag(users, tags, username, fault)
       IN /\ last' = Record(Call("DisplayUserTag", username, NoPassword, NoTag), o)
          /\ users' = o.users
          /\ tags' = o.tags
    /\ UNCHANGED <<clock, registered, conn, calls>>

\* the caller has the result; the service keeps nothing of the call
Return ==
  /\ last.call.op # "none"
  /\ last' = Record(NoCall, NoOutcome)
  /\ UNCHANGED <<users, tags, clock, registered, conn, calls>>

\* every operation, with every password and one tag
Next ==
  \/ Tick
  \/ Return
  \/ DoLoginUser(Passwords)
  \/ DoCreateUser(Passwords)
  \/ DoGetUser
  \/ DoUpdateUserSettings
  \/ DoAddUserTag({TagOrder[1]}, {"diet"})
  \/ DoDeleteUserTag({TagOrder[1]})
  \/ DoDisplayUserTag

Spec == Init /\ [][Next]_vars

\* every operation, with one password and every tag
NextTags ==
  \/ Tick
  \/ Return
  \/ DoLoginUser({PwShort})
  \/ DoCreateUser({PwShort})
  \/ DoGetUser
  \/ DoUpdateUserSettings
  \/ DoAddUserTag(TagNames, TagTypes)
  \/ DoDeleteUserTag(TagNames)
  \/ DoDisplayUserTag

SpecTags == Init /\ [][NextTags]_vars

\* ------------------------------------- concurrent callers: SpecConc
\* Goroutines calling CreateUser on the one BaseUserService, whose Repo runs
\* every statement on the one DbConn.  A *pgx.Conn serves one statement at a
\* time and is not safe for concurrent use: a statement issued while another
\* is in flight on it is refused with "conn busy", and the service takes no
\* lock of its own around its store calls.
ConcStart(c) ==
  \E username \in Usernames, password \in Passwords, valid \in BOOLEAN,
     salt \in Salts :
    /\ calls[c].pc = "idle"
    /\ calls' = [calls EXCEPT ![c] =
         [pc |-> "called", req |-> CreateUserRequest(username, password),
          valid |-> valid, salt |-> salt, err |-> Nil]]
    /\ UNCHANGED <<users, tags, clock, registered, last, conn>>

\* up to s.Repo.CreateUser: validation and hashing, then the statement is
\* handed to the connection
ConcExec(c) ==
  /\ calls[c].pc = "called"
  /\ LET k == calls[c]
         o == CreateUser(users, tags, k.req, k.valid, k.salt,
                         IF conn = "busy" THEN ErrConnBusy ELSE "none")
     IN IF o.storeCalls = 0 \/ conn = "busy"
        THEN /\ calls' = [calls EXCEPT ![c].pc = "done", ![c].err = o.err]
             /\ conn' = conn
        ELSE /\ calls' = [calls EXCEPT ![c].pc = "inflight"]
             /\ conn' = "busy"
  /\ UNCHANGED <<users, tags, clock, registered, last>>

\* the statement takes effect in the store and CreateUser returns
ConcReturn(c) ==
  /\ calls[c].pc = "inflight"
  /\ LET k == calls[c]
         o == CreateUser(users, tags, k.req, k.valid, k.salt, "none")
     IN /\ users' = o.users
        /\ calls' = [calls EXCEPT ![c].pc = "done", ![c].err = o.err]
  /\ conn' = "idle"
  /\ UNCHANGED <<tags, clock, registered, last>>

NextConc ==
  \E c \in Callers :
    \/ ConcStart(c)
    \/ ConcExec(c)
    \/ ConcReturn(c)

SpecConc == Init /\ [][NextConc]_vars

\* ------------------------------------------------------------- claims
\* the token check of the callers of the service: signed with the key and
\* not past its expiry
ValidToken(tok, now) == tok.sig = key /\ now <= tok.exp

Range(f) == {f[i] : i \in DOMAIN f}

IsCall(op) == last.call.op = op

\* what ListTags returns for a username when its store call succeeds
ListTags(username) == Range(DisplayUserTag(users, tags, username, "none").rows)

C2_WrongPasswordUnauthorized ==
  IsCall("LoginUser") =>
    /\ (\/ last.call.username \notin DOMAIN users
        \/ \E p \in Passwords : /\ <<last.call.username, p>> \in registered
                                /\ p # last.call.password)
         => (last.err = ErrUnauthorizedUser /\ last.token = NoToken)
    /\ last.err = ErrInternalFailure => last.libErr = ErrSign

\* C3: every token LoginUser issues has exp - iat = 86400 seconds exactly, and
\* is not valid once the clock is past its exp.
C3_ExpiryExactlyOneDay ==
  (IsCall("LoginUser") /\ last.err = Nil) =>
    /\ last.token.exp - last.token.iat = Day
    /\ \A now \in 0..(last.token.exp + 1) :
         now > last.token.exp => ~ValidToken(last.token, now)

\* a tag call changes no tag row of another username or another tag name
C4_TagStep ==
  (last.call.op = "none" /\ last'.call.op \in {"AddUserTag", "DeleteUserTag"}) =>
    \A t \in tags \cup tags' :
      (t.username # last'.call.username \/ t.tag_name # last'.call.tag.Name)
        => (t \in tags <=> t \in tags')

\* C4: after an AddUserTag that returned nil, the list of the username holds
\* the added (name, type) pair; after a DeleteUserTag that returned nil, the
\* list holds no tag of that name; and both leave every tag row of another
\* username or of another tag name as it was.
C4_AddListDelete ==
  /\ [](/\ (IsCall("AddUserTag") /\ last.err = Nil) =>
              [tag_name |-> last.call.tag.Name, tag_type |-> last.call.tag.TagType]
                \in ListTags(last.call.username)
        /\ (IsCall("DeleteUserTag") /\ last.err = Nil) =>
              \A r \in ListTags(last.call.username) : r.tag_name # last.call.tag.Name)
  /\ [][C4_TagStep]_vars

C4_Witness ==
  /\ IsCall("DeleteUserTag")
  /\ last.err = Nil
  /\ Cardinality(tags) = 2
  /\ \E t \in tags : t.username = last.call.username
  /\ \E t \in tags : t.username # last.call.username

\* a CreateUser call that returned an error left the user rows as they were
C5_FailedStep ==
  (last.call.op = "none" /\ last'.call.op = "CreateUser" /\ last'.err # Nil) => users' = users

\* C5: CreateUser returns ErrInternalFailure and nothing else on a validation
\* failure, a hashing failure and any store error; it makes no store call on
\* the first two; and a CreateUser that failed leaves the user rows as they were.
C5_CreateUserErrors ==
  /\ [](IsCall("CreateUser") =>
          /\ last.err \in {Nil, ErrInternalFailure}
          /\ last.libErr # Nil => (last.err = ErrInternalFailure /\ last.storeCalls = 0)
          /\ last.storeErr # Nil => last.err = ErrInternalFailure
          /\ last.err = Nil => (last.libErr = Nil /\ last.storeErr = Nil))
  /\ [][C5_FailedStep]_vars

C5_Witness ==
  /\ IsCall("CreateUser")
  /\ last.storeErr = ErrUnique
  /\ last.err = ErrInternalFailure
  /\ last.call.username \in DOMAIN users

\* the calls of the callers in `order`, made one after the other on an empty
\* store: the errors they return and the store they leave
RECURSIVE SeqRun(_, _)
SeqRun(order, i) ==
  IF i = 0 THEN [users |-> <<>>, err |-> [c \in {} |-> Nil]]
  ELSE LET before == SeqRun(order, i - 1)
           k == calls[order[i]]
           o == CreateUser(before.users, {}, k.req, k.valid, k.salt, "none")
       IN [users |-> o.users, err |-> before.err @@ (order[i] :> o.err)]

Orders == {f \in [Callers -> Callers] : \A c \in Callers : \E i \in Callers : f[i] = c}

AllDone == \A c \in Callers : calls[c].pc = "done"

\* C6: concurrent calls on the shared connection are as some sequential order
\* of them: when all have returned, their errors and the store are those of
\* the calls made one after the other in some order; and of the CreateUser
\* calls for one username at most one returned nil, the others
\* ErrInternalFailure, and the row of a username with a winner verifies the
\* winner's password.
C6_ConcurrentAsSequential ==
  AllDone =>
    /\ \E order \in Orders :
         LET r == SeqRun(order, NumCallers)
         IN r.users = users /\ \A c \in Callers : r.err[c] = calls[c].err
    /\ \A u \in Usernames :
         LET cs == {c \in Callers : calls[c].req.Username = u}
             won == {c \in cs : calls[c].err = Nil}
         IN /\ Cardinality(won) <= 1
            /\ \A c \in cs \ won : calls[c].err = ErrInternalFailure
            /\ \A c \in won :
                 /\ u \in DOMAIN users
                 /\ CompareHashAndPassword(users[u].passwdhash, calls[c].req.Passwdhash)

\* C7: every call makes at most one store call, and a store call that failed
\* is the call's failure: the caller gets a non-nil error.
C7_OneStoreCall ==
  /\ last.storeCalls <= 1
  /\ last.storeErr # Nil => (last.storeCalls = 1 /\ last.err # Nil)

C7_Witness ==
  /\ IsCall("UpdateUserSettings")
  /\ last.storeErr = ErrConn
  /\ last.storeCalls = 1

\* C8: UpdateUserSettings returns ErrInternalFailure for any store error;
\* GetUser, AddUserTag, DeleteUserTag and DisplayUserTag return the store's
\* error itself, DisplayUserTag with no list; each returns nil exactly when
\* its store call succeeded.
C8_ErrorTranslation ==
  /\ IsCall("UpdateUserSettings") =>
       last.err = (IF last.storeErr = Nil THEN Nil ELSE ErrInternalFailure)
  /\ last.call.op \in {"GetUser", "AddUserTag", "DeleteUserTag", "DisplayUserTag"} =>
       last.err = last.storeErr
  /\ (IsCall("DisplayUserTag") /\ last.err # Nil) => last.rows = <<>>

C8_Witness ==
  /\ IsCall("AddUserTag")
  /\ last.err = ErrUnique

\* C9: the stored hash of every registered user differs from the registered
\* plaintext, verifies against it, and verifies against no other plaintext.
C9_HashVerifiesOnlyPlaintext ==
  \A pair \in registered :
    LET hash == users[pair[1]].passwdhash
    IN /\ hash # pair[2]
       /\ CompareHashAndPassword(hash, pair[2])
       /\ \A q \in Passwords \ {pair[2]} : ~CompareHashAndPassword(hash, q)

\* the (username, password) pairs LoginUser's comparison accepts
Accepted(U) ==
  {pair \in Usernames \X Passwords :
     pair[1] \in DOMAIN U /\ CompareHashAndPassword(U[pair[1]].passwdhash, pair[2])}

C10_Step ==
  /\ \A u \in DOMAIN users :
       /\ u \in DOMAIN users'
       /\ users'[u].username = users[u].username
       /\ users'[u].passwdhash = users[u].passwdhash
       /\ ~(last'.call.op = "UpdateUserSettings" /\ last'.call.username = u)
            => users'[u] = users[u]
  /\ last'.call.op # "CreateUser" => DOMAIN users' = DOMAIN users
  /\ Accepted(users) \subseteq Accepted(users')

\* C10: no call removes a user row or changes its username or password hash;
\* UpdateUserSettings changes the row of its username only, every other call
\* but CreateUser changes no row and adds none; the credentials LoginUser
\* accepts only grow.
C10_CredentialsKept == [][C10_Step]_vars

C10_Witness ==
  /\ IsCall("UpdateUserSettings")
  /\ last.err = Nil
  /\ DOMAIN users = Usernames
  /\ users[last.call.username].email = UpdateUserSettingsRequest.Email
  /\ \E u \in DOMAIN users : users[u].email # UpdateUserSettingsRequest.Email

====
